---- MODULE Spec2Model ----
(***************************************************************************)
(* stack-algebra: fixed-dimension dense matrices and the LU based linear   *)
(* algebra built on them (src/src/algebra.rs).                             *)
(*                                                                         *)
(* Elements.  The element type T is a generic parameter.  Two element      *)
(* types are modelled, selected by the variable ty:                        *)
(*   "f64"  a floating type with exact finite arithmetic: a finite value   *)
(*          is the fraction <<n, d>> in lowest terms with d > 0, and the   *)
(*          IEEE non-finite values are <<1,0>> (+inf), <<-1,0>> (-inf) and *)
(*          <<0,0>> (NaN).  Rounding is not modelled.                      *)
(*   "i32"  a machine integer <<n, 1>>: division truncates toward zero and *)
(*          a division by zero panics.                                     *)
(*                                                                         *)
(* Matrices.  A matrix with M rows is a function from the linear offsets   *)
(* 0..M*N-1 of its column-major storage to elements; the element at        *)
(* (row, col) lives at offset col*M + row.                                 *)
(***************************************************************************)
EXTENDS Integers, Sequences, FiniteSets, TLC

\* ------------------------------------------------------------------ bounds
\* Largest dimension D of the square input matrices.
MaxD == 3
\* Input entries are the integers -1..MaxVal.
MaxVal == 2
\* An input matrix has at most MaxNonZero nonzero entries.
MaxNonZero == 4

\* Matrix<M, N, T> is indexed with M in 1..MaxM and N in 1..MaxN.
MaxM == 3

MaxN == 3

\* Row and column arguments range over 0..MaxIdx, in and out of range.
MaxIdx == 3

\* The source of collect yields 0..MaxItems items.
MaxItems == 10

VARIABLES
    ty,       \* element type of the run: "f64" or "i32"
    D,        \* the const generic dimension of Matrix<D, D, T>
    A,        \* the matrix the operation is called on (self)
    P, L, U,  \* the locals of lu
    d,        \* loop variable of lu
    max_row,  \* local of lu: result of find_max_row
    pc,       \* position in the running operation
    swaps,    \* number of row exchanges partial_pivot has performed
    zeroPivot,\* some elimination step ran with a pivot equal to zero
    res,      \* value returned by the operation
    \* --- storage and indexing (lib.rs, index.rs): Matrix<M, N, T>
    rows,     \* the const generic M
    cols,     \* the const generic N
    data,     \* the field data: [[T; M]; N], column c at data[c]
    args,     \* the last call and its arguments
    it,       \* the slice iterator: is one live, and what it has yielded
    \* --- collect (new.rs)
    src,      \* the source iterator: the items it yields and how it ends
    guard,    \* the Guard: its MaybeUninit matrix and its init counter
    pulled,   \* iterations of the fill loop begun, one iter.next() each
    drops     \* offsets of the cells destroyed so far, in order

algVars == <<ty, D, A, P, L, U, d, max_row, swaps, zeroPivot>>

storeVars == <<rows, cols, data, args, it>>

collectVars == <<src, guard, pulled, drops>>

vars == <<algVars, pc, res, storeVars, collectVars>>

\* ------------------------------------------------------- integer helpers
IAbs(n) == IF n < 0 THEN -n ELSE n

ISgn(n) == IF n < 0 THEN -1 ELSE IF n = 0 THEN 0 ELSE 1

RECURSIVE GCD(_, _)
GCD(a, b) == IF b = 0 THEN a ELSE GCD(b, a % b)

\* Quotient rounded toward zero, as Rust's integer `/`.
TruncDiv(a, b) == ISgn(a) * ISgn(b) * (IAbs(a) \div IAbs(b))

\* ------------------------------------------------------------- elements
NaN == <<0, 0>>

\* The fraction n/d as an element; d = 0 gives the non-finite values.
Norm(n, dd) ==
    IF dd = 0 THEN <<ISgn(n), 0>>
    ELSE LET g == GCD(IAbs(n), IAbs(dd))
             s == IF dd < 0 THEN -1 ELSE 1
         IN  <<(s * n) \div g, (s * dd) \div g>>

FromInt(n) == <<n, 1>>

Zero == FromInt(0)

One == FromInt(1)

IsNaN(a) == a = NaN

Add(a, b) ==
    IF a[2] = 0 /\ b[2] = 0
    THEN (IF a[1] = b[1] THEN a ELSE NaN)
    ELSE Norm(a[1] * b[2] + b[1] * a[2], a[2] * b[2])

Neg(a) == <<-a[1], a[2]>>

Sub(a, b) == Add(a, Neg(b))

Mul(a, b) == Norm(a[1] * b[1], a[2] * b[2])

\* T::div.  For "i32" the divisor is nonzero here: the callers model the
\* panic of a division by zero themselves.
Div(t, a, b) ==
    IF t = "i32" THEN FromInt(TruncDiv(a[1], b[1]))
    ELSE Norm(a[1] * b[2], a[2] * b[1])

\* T::rem for f64 (fmod): NaN for a NaN operand, an infinite dividend or a
\* zero divisor; the dividend itself for an infinite divisor; else
\* a - trunc(a / b) * b.
Rem(a, b) ==
    IF a[2] = 0 \/ b = NaN \/ b = Zero THEN NaN
    ELSE IF b[2] = 0 THEN a
    ELSE Sub(a, Mul(FromInt(TruncDiv(a[1] * b[2], a[2] * b[1])), b))

Abs(a) == <<IAbs(a[1]), a[2]>>

\* PartialOrd::lt: every comparison with NaN is false.
Lt(a, b) ==
    IF IsNaN(a) \/ IsNaN(b) THEN FALSE
    ELSE IF a[2] = 0 /\ b[2] = 0 THEN a[1] < b[1]
    ELSE a[1] * b[2] < b[1] * a[2]

\* PartialEq::eq: NaN equals nothing.
Eq(a, b) == a = b /\ ~IsNaN(a)

Le(a, b) == Lt(a, b) \/ Eq(a, b)

\* ------------------------------------------------------------- matrices
Offset(M, r, c) == c * M + r

At(m, M, r, c) == m[Offset(M, r, c)]

RowOf(M, k) == k % M

ColOf(M, k) == k \div M

Idx(n) == 0 .. (n - 1)

eye(n) == [k \in Idx(n * n) |-> IF RowOf(n, k) = ColOf(n, k) THEN One ELSE Zero]

\* swap_rows without the temporary: row r1 is overwritten before it is saved.
swap_rows_no_tmp(m, M, N, r1, r2) ==
    IF r1 < M /\ r2 < M
    THEN [k \in DOMAIN m |->
            IF RowOf(M, k) = r1 THEN m[Offset(M, r2, ColOf(M, k))] ELSE m[k]]
    ELSE m

\* swap_rows that clamps an out-of-range row to the last row.
swap_rows_clamped(m, M, N, r1, r2) ==
    LET c1 == IF r1 < M THEN r1 ELSE M - 1
        c2 == IF r2 < M THEN r2 ELSE M - 1
    IN  [k \in DOMAIN m |->
            IF RowOf(M, k) = c1 THEN m[Offset(M, c2, ColOf(M, k))]
            ELSE IF RowOf(M, k) = c2 THEN m[Offset(M, c1, ColOf(M, k))]
            ELSE m[k]]

swap_rows(m, M, N, r1, r2) ==
    IF r1 < M /\ r2 < M
    THEN [k \in DOMAIN m |->
            IF RowOf(M, k) = r1 THEN m[Offset(M, r2, ColOf(M, k))]
            ELSE IF RowOf(M, k) = r2 THEN m[Offset(M, r1, ColOf(M, k))]
            ELSE m[k]]
    ELSE m

\* swap_columns without the temporary.
swap_columns_no_tmp(m, M, N, c1, c2) ==
    IF c1 < N /\ c2 < N
    THEN [k \in DOMAIN m |->
            IF ColOf(M, k) = c1 THEN m[Offset(M, RowOf(M, k), c2)] ELSE m[k]]
    ELSE m

\* swap_columns exchanging the two columns in row 0 only.
swap_columns_top_row(m, M, N, c1, c2) ==
    IF c1 < N /\ c2 < N
    THEN [k \in DOMAIN m |->
            IF RowOf(M, k) # 0 THEN m[k]
            ELSE IF ColOf(M, k) = c1 THEN m[Offset(M, 0, c2)]
            ELSE IF ColOf(M, k) = c2 THEN m[Offset(M, 0, c1)]
            ELSE m[k]]
    ELSE m

swap_columns(m, M, N, c1, c2) ==
    IF c1 < N /\ c2 < N
    THEN [k \in DOMAIN m |->
            IF ColOf(M, k) = c1 THEN m[Offset(M, RowOf(M, k), c2)]
            ELSE IF ColOf(M, k) = c2 THEN m[Offset(M, RowOf(M, k), c1)]
            ELSE m[k]]
    ELSE m

\* Row::dot: the sum of row[i] * col[i] for i = 0..N-1, folded from zero.
RECURSIVE DotTo(_, _, _, _, _, _)
DotTo(X, Y, n, i, j, k) ==
    IF k = 0 THEN Zero
    ELSE Add(DotTo(X, Y, n, i, j, k - 1),
             Mul(At(X, n, i, k - 1), At(Y, n, k - 1, j)))

MatMul(X, Y, n) ==
    [k \in Idx(n * n) |-> DotTo(X, Y, n, RowOf(n, k), ColOf(n, k), n)]

\* ------------------------------------------------------------------- lu
RECURSIVE FindMaxRowFrom(_, _, _, _, _)
FindMaxRowFrom(m, n, diag, r, mr) ==
    IF r >= n THEN mr
    ELSE FindMaxRowFrom(m, n, diag, r + 1,
            IF Lt(Abs(At(m, n, mr, diag)), Abs(At(m, n, r, diag))) THEN r ELSE mr)

\* find_max_row without the search: the diagonal row is always the pivot row.
find_max_row_diag(m, n, diag) == diag

find_max_row(m, n, diag) == FindMaxRowFrom(m, n, diag, diag, diag)

\* partial_pivot exchanging the two rows of L in every column.
PivotL_full_rows(m, n, diag, mr) == swap_rows(m, n, n, diag, mr)

\* partial_pivot exchanging the entries of L in columns up to and including diag.
PivotL_le(m, n, diag, mr) ==
    [k \in DOMAIN m |->
        IF ColOf(n, k) <= diag /\ RowOf(n, k) = mr /\ mr # diag
            THEN At(m, n, diag, ColOf(n, k))
        ELSE IF ColOf(n, k) <= diag /\ RowOf(n, k) = diag /\ mr # diag
            THEN At(m, n, mr, ColOf(n, k))
        ELSE m[k]]

\* The L part of partial_pivot: rows diag and mr exchanged in columns < diag.
PivotL(m, n, diag, mr) ==
    [k \in DOMAIN m |->
        IF ColOf(n, k) < diag /\ RowOf(n, k) = mr /\ mr # diag
            THEN At(m, n, diag, ColOf(n, k))
        ELSE IF ColOf(n, k) < diag /\ RowOf(n, k) = diag /\ mr # diag
            THEN At(m, n, mr, ColOf(n, k))
        ELSE m[k]]

\* gauss_eliminate storing a multiplier on the diagonal as well.
ElimL_from_diag(t, l, u, n, dg) ==
    [k \in DOMAIN l |->
        IF ColOf(n, k) = dg /\ RowOf(n, k) >= dg
            THEN Div(t, At(u, n, RowOf(n, k), dg), At(u, n, dg, dg))
        ELSE l[k]]

\* gauss_eliminate, the L part: the multipliers of column dg.
ElimL(t, l, u, n, dg) ==
    [k \in DOMAIN l |->
        IF ColOf(n, k) = dg /\ RowOf(n, k) > dg
            THEN Div(t, At(u, n, RowOf(n, k), dg), At(u, n, dg, dg))
        ELSE l[k]]

\* gauss_eliminate adding the multiple of the pivot row instead of subtracting.
ElimU_add(t, l, u, n, dg) ==
    LET l1 == ElimL(t, l, u, n, dg)
    IN  [k \in DOMAIN u |->
            IF RowOf(n, k) > dg
                THEN Add(u[k], Mul(At(l1, n, RowOf(n, k), dg), At(u, n, dg, ColOf(n, k))))
            ELSE u[k]]

\* gauss_eliminate, the U part: every row below dg loses its multiple of row dg.
ElimU(t, l, u, n, dg) ==
    LET l1 == ElimL(t, l, u, n, dg)
    IN  [k \in DOMAIN u |->
            IF RowOf(n, k) > dg
                THEN Sub(u[k], Mul(At(l1, n, RowOf(n, k), dg), At(u, n, dg, ColOf(n, k))))
            ELSE u[k]]

\* gauss_eliminate divides by U[d,d] once for every row below d.
ElimDivides(n, dg) == dg + 1 < n

\* ---------------------------------------------------------------- Option
Unset == [tag |-> "Unset"]

None == [tag |-> "None"]

Some(v) == [tag |-> "Some", val |-> v]

\* The call panicked.
Panic == [tag |-> "Panic"]

\* ------------------------------------------------- triangular inversion
\* invert_upper_triangular from row i down to row 0; arg is U as the call
\* leaves it.
\* InvUpperFrom that does not scale row i of the accumulator.
RECURSIVE InvUpperFrom_no_scale(_, _, _, _, _)
InvUpperFrom_no_scale(t, u, acc, n, i) ==
    IF i < 0 THEN [tag |-> "Some", val |-> acc, arg |-> u]
    ELSE IF At(u, n, i, i) = Zero THEN [tag |-> "None", arg |-> u]
    ELSE LET coeff == Div(t, One, At(u, n, i, i))
             u1 == [k \in DOMAIN u |->
                        IF k = Offset(n, i, i) THEN Mul(u[k], coeff)
                        ELSE IF ColOf(n, k) = i /\ RowOf(n, k) < i THEN Zero
                        ELSE u[k]]
             acc2 == [k \in DOMAIN acc |->
                        IF RowOf(n, k) < i /\ ColOf(n, k) >= i
                            THEN Add(acc[k], Mul(Neg(At(u, n, RowOf(n, k), i)),
                                                 At(acc, n, i, ColOf(n, k))))
                        ELSE acc[k]]
         IN  InvUpperFrom_no_scale(t, u1, acc2, n, i - 1)

RECURSIVE InvUpperFrom(_, _, _, _, _)
InvUpperFrom(t, u, acc, n, i) ==
    IF i < 0 THEN [tag |-> "Some", val |-> acc, arg |-> u]
    ELSE IF At(u, n, i, i) = Zero THEN [tag |-> "None", arg |-> u]
    ELSE LET coeff == Div(t, One, At(u, n, i, i))
             u1 == [k \in DOMAIN u |->
                        IF k = Offset(n, i, i) THEN Mul(u[k], coeff)
                        ELSE IF ColOf(n, k) = i /\ RowOf(n, k) < i THEN Zero
                        ELSE u[k]]
             acc1 == [k \in DOMAIN acc |->
                        IF RowOf(n, k) = i /\ ColOf(n, k) >= i
                            THEN Mul(acc[k], coeff)
                        ELSE acc[k]]
             acc2 == [k \in DOMAIN acc |->
                        IF RowOf(n, k) < i /\ ColOf(n, k) >= i
                            THEN Add(acc1[k], Mul(Neg(At(u, n, RowOf(n, k), i)),
                                                  At(acc1, n, i, ColOf(n, k))))
                        ELSE acc1[k]]
         IN  InvUpperFrom(t, u1, acc2, n, i - 1)

\* invert_upper_triangular whose loop starts one row too high.
invert_upper_triangular_skip_last(t, u, n) == InvUpperFrom(t, u, eye(n), n, n - 2)

invert_upper_triangular(t, u, n) == InvUpperFrom(t, u, eye(n), n, n - 1)

\* InvLowerFrom whose column loop stops one column early (0..i).
RECURSIVE InvLowerFrom_short_cols(_, _, _, _)
InvLowerFrom_short_cols(l, acc, n, i) ==
    IF i >= n THEN [tag |-> "Some", val |-> acc, arg |-> l]
    ELSE IF At(l, n, i, i) # One THEN [tag |-> "None", arg |-> l]
    ELSE LET l1 == [k \in DOMAIN l |->
                        IF ColOf(n, k) = i /\ RowOf(n, k) > i THEN Zero ELSE l[k]]
             acc1 == [k \in DOMAIN acc |->
                        IF RowOf(n, k) > i /\ ColOf(n, k) < i
                            THEN Add(acc[k], Mul(Neg(At(l, n, RowOf(n, k), i)),
                                                 At(acc, n, i, ColOf(n, k))))
                        ELSE acc[k]]
         IN  InvLowerFrom_short_cols(l1, acc1, n, i + 1)

\* invert_lower_triangular from row i up to row n-1; arg is L as the call
\* leaves it.
RECURSIVE InvLowerFrom(_, _, _, _)
InvLowerFrom(l, acc, n, i) ==
    IF i >= n THEN [tag |-> "Some", val |-> acc, arg |-> l]
    ELSE IF At(l, n, i, i) # One THEN [tag |-> "None", arg |-> l]
    ELSE LET l1 == [k \in DOMAIN l |->
                        IF ColOf(n, k) = i /\ RowOf(n, k) > i THEN Zero ELSE l[k]]
             acc1 == [k \in DOMAIN acc |->
                        IF RowOf(n, k) > i /\ ColOf(n, k) <= i
                            THEN Add(acc[k], Mul(Neg(At(l, n, RowOf(n, k), i)),
                                                 At(acc, n, i, ColOf(n, k))))
                        ELSE acc[k]]
         IN  InvLowerFrom(l1, acc1, n, i + 1)

\* invert_lower_triangular whose loop starts at row 1.
invert_lower_triangular_skip_first(l, n) == InvLowerFrom(l, eye(n), n, 1)

invert_lower_triangular(l, n) == InvLowerFrom(l, eye(n), n, 0)

\* inv multiplying the triangular inverses in the wrong order.
inv_wrong_order(t, l, u, p, n) ==
    LET li == invert_lower_triangular(l, n)
        ui == invert_upper_triangular(t, u, n)
    IN  IF li.tag = "Some" /\ ui.tag = "Some"
        THEN Some(MatMul(MatMul(li.val, ui.val, n), p, n))
        ELSE None

\* The tail of inv: both triangular inversions, then U_inv * L_inv * P.
inv(t, l, u, p, n) ==
    LET li == invert_lower_triangular(l, n)
        ui == invert_upper_triangular(t, u, n)
    IN  IF li.tag = "Some" /\ ui.tag = "Some"
        THEN Some(MatMul(MatMul(ui.val, li.val, n), p, n))
        ELSE None

\* The tail of det: the product of both diagonals, negated when D is odd.
RECURSIVE DetTo(_, _, _, _)
DetTo(l, u, n, i) ==
    IF i = 0 THEN One
    ELSE Mul(Mul(DetTo(l, u, n, i - 1), At(l, n, i - 1, i - 1)), At(u, n, i - 1, i - 1))

det(l, u, n) == IF n % 2 # 0 THEN Neg(DetTo(l, u, n, n)) ELSE DetTo(l, u, n, n)

\* ------------------------------------------------------------ the inputs
Cells(n) == Idx(n * n)

NonZeroVals == {-1} \cup (1 .. MaxVal)

\* The n x n integer matrices with entries in -1..MaxVal of which at most
\* MaxNonZero are nonzero.
Sparse(n) ==
    UNION { { [k \in Cells(n) |-> IF k \in S THEN FromInt(f[k]) ELSE Zero] :
                f \in [S -> NonZeroVals] } :
            S \in {T \in SUBSET Cells(n) : Cardinality(T) <= MaxNonZero} }

\* The n x n matrices of zeros and ones.
Dense(n) == { [k \in Cells(n) |-> FromInt(f[k])] : f \in [Cells(n) -> {0, 1}] }

\* The n x n upper triangular matrices with entries in -1..MaxVal.
UpperInputs(n) ==
    { [k \in Cells(n) |-> IF RowOf(n, k) <= ColOf(n, k) THEN FromInt(f[k]) ELSE Zero] :
        f \in [{k \in Cells(n) : RowOf(n, k) <= ColOf(n, k)} -> (-1) .. MaxVal] }

\* The n x n lower triangular matrices with entries in -1..MaxVal.
LowerInputs(n) ==
    { [k \in Cells(n) |-> IF RowOf(n, k) >= ColOf(n, k) THEN FromInt(f[k]) ELSE Zero] :
        f \in [{k \in Cells(n) : RowOf(n, k) >= ColOf(n, k)} -> (-1) .. MaxVal] }

Inputs(n) == Sparse(n) \cup Dense(n) \cup UpperInputs(n) \cup LowerInputs(n)

InitRest ==
    /\ D \in 1 .. MaxD
    /\ A \in Inputs(D)
    /\ P = <<>>
    /\ L = <<>>
    /\ U = <<>>
    /\ d = 0
    /\ max_row = 0
    /\ pc = "start"
    /\ swaps = 0
    /\ zeroPivot = FALSE
    /\ res = Unset

\* No call has been made yet.
NoCall == [op |-> "none", a |-> 0, b |-> 0]

\* No iterator borrows the matrix.
NoIter == [live |-> FALSE, out |-> <<>>]

\* No matrix is being indexed.
StoreIdle ==
    /\ rows = 0
    /\ cols = 0
    /\ data = <<>>
    /\ args = NoCall
    /\ it = NoIter

\* No collect is running.
CollectIdle ==
    /\ src = <<>>
    /\ guard = <<>>
    /\ pulled = 0
    /\ drops = <<>>

Init == ty = "f64" /\ InitRest /\ StoreIdle /\ CollectIdle

InitInt == ty = "i32" /\ InitRest /\ StoreIdle /\ CollectIdle

\* lu, lines 55-57: P and L start as the identity, U as a copy of self.
LuStart ==
    /\ pc = "start"
    /\ P' = eye(D)
    /\ L' = eye(D)
    /\ U' = A
    /\ d' = 0
    /\ pc' = "find"
    /\ UNCHANGED <<ty, D, A, max_row, swaps, zeroPivot, res>>
    /\ UNCHANGED <<storeVars, collectVars>>

\* lu, line 61.
FindMaxRow ==
    /\ pc = "find"
    /\ max_row' = find_max_row(U, D, d)
    /\ pc' = "pivot"
    /\ UNCHANGED <<ty, D, A, P, L, U, d, swaps, zeroPivot, res>>
    /\ UNCHANGED <<storeVars, collectVars>>

\* lu, line 63: partial_pivot.
PartialPivot ==
    /\ pc = "pivot"
    /\ P' = swap_rows(P, D, D, d, max_row)
    /\ U' = swap_rows(U, D, D, d, max_row)
    /\ L' = PivotL(L, D, d, max_row)
    /\ swaps' = IF max_row # d THEN swaps + 1 ELSE swaps
    /\ pc' = "elim"
    /\ UNCHANGED <<ty, D, A, d, max_row, zeroPivot, res>>
    /\ UNCHANGED <<storeVars, collectVars>>

\* lu, line 65: gauss_eliminate, then the next iteration or the return.
GaussEliminate ==
    /\ pc = "elim"
    /\ ~(ty = "i32" /\ ElimDivides(D, d) /\ At(U, D, d, d) = Zero)
    /\ L' = ElimL(ty, L, U, D, d)
    /\ U' = ElimU(ty, L, U, D, d)
    /\ zeroPivot' = (zeroPivot \/ At(U, D, d, d) = Zero)
    /\ d' = d + 1
    /\ pc' = IF d + 1 < D THEN "find" ELSE "done"
    /\ UNCHANGED <<ty, D, A, P, max_row, swaps, res>>
    /\ UNCHANGED <<storeVars, collectVars>>

\* gauss_eliminate over an integer type with U[d,d] = 0: the division panics.
GaussEliminatePanic ==
    /\ pc = "elim"
    /\ ty = "i32" /\ ElimDivides(D, d) /\ At(U, D, d, d) = Zero
    /\ pc' = "panic"
    /\ zeroPivot' = TRUE
    /\ UNCHANGED <<ty, D, A, P, L, U, d, max_row, swaps, res>>
    /\ UNCHANGED <<storeVars, collectVars>>

\* det, lines 44-51, once its call of lu has returned.
Det ==
    /\ pc = "done"
    /\ res' = det(L, U, D)
    /\ pc' = "det"
    /\ UNCHANGED <<ty, D, A, P, L, U, d, max_row, swaps, zeroPivot>>
    /\ UNCHANGED <<storeVars, collectVars>>

\* inv, lines 32-39, once its call of lu has returned.
Inv ==
    /\ pc = "done"
    /\ res' = inv(ty, L, U, P, D)
    /\ pc' = "inv"
    /\ UNCHANGED <<ty, D, A, P, L, U, d, max_row, swaps, zeroPivot>>
    /\ UNCHANGED <<storeVars, collectVars>>

\* invert_upper_triangular called on A itself, as the test upper_inverse does.
InvertUpper ==
    /\ pc = "start"
    /\ LET r == invert_upper_triangular(ty, A, D)
       IN  /\ U' = r.arg
           /\ res' = IF r.tag = "Some" THEN Some(r.val) ELSE None
    /\ pc' = "invU"
    /\ UNCHANGED <<ty, D, A, P, L, d, max_row, swaps, zeroPivot>>
    /\ UNCHANGED <<storeVars, collectVars>>

\* invert_lower_triangular called on A itself, as the test lower_inverse does.
InvertLower ==
    /\ pc = "start"
    /\ LET r == invert_lower_triangular(A, D)
       IN  /\ L' = r.arg
           /\ res' = IF r.tag = "Some" THEN Some(r.val) ELSE None
    /\ pc' = "invL"
    /\ UNCHANGED <<ty, D, A, P, U, d, max_row, swaps, zeroPivot>>
    /\ UNCHANGED <<storeVars, collectVars>>

Next ==
    \/ LuStart
    \/ FindMaxRow
    \/ PartialPivot
    \/ GaussEliminate
    \/ Det
    \/ Inv
    \/ InvertUpper
    \/ InvertLower

\* Over an integer element type a step of lu may also panic.
NextInt == Next \/ GaussEliminatePanic

\* Matrix<D, D, f64>.
Spec == Init /\ [][Next]_vars

\* Matrix<D, D, i32>.
SpecInt == InitInt /\ [][NextInt]_vars

\* ------------------------------------------------- storage and indexing
\* as_slice that reads the storage row by row.
as_slice_row_major(dt, M, N) ==
    [k \in Idx(M * N) |-> dt[k % N][k \div N]]

\* as_slice: the M*N elements of data: [[T; M]; N] as they lie in memory,
\* column after column.
as_slice(dt, M, N) ==
    [k \in Idx(M * N) |-> dt[k \div M][k % M]]

\* The storage after the slice view s of it was written through
\* as_mut_slice.
from_slice(s, M, N) ==
    [c \in Idx(N) |-> [r \in Idx(M) |-> s[c * M + r]]]

\* <[T]>::get
slice_get(s, k) == IF k \in DOMAIN s THEN Some(s[k]) ELSE None

\* <[T]>::index
slice_index(s, k) == IF k \in DOMAIN s THEN Some(s[k]) ELSE Panic

\* usize as MatrixIndex
get_offset(dt, M, N, k) == slice_get(as_slice(dt, M, N), k)

index_offset(dt, M, N, k) == slice_index(as_slice(dt, M, N), k)

\* (usize, usize) as MatrixIndex
get(dt, M, N, r, c) == slice_get(as_slice(dt, M, N), c * M + r)

index(dt, M, N, r, c) == slice_index(as_slice(dt, M, N), c * M + r)

\* *index_mut((r, c)) = v: the storage afterwards, or Panic.
index_mut(dt, M, N, r, c, v) ==
    LET s == as_slice(dt, M, N)
        k == c * M + r
    IN  IF k \in DOMAIN s
        THEN Some(from_slice([s EXCEPT ![k] = v], M, N))
        ELSE Panic

\* matrix![1, 2, 3; 4, 5, 6] and its like: the element of row r and column c
\* is r * N + c + 1.
Fixture(M, N) ==
    [c \in Idx(N) |-> [r \in Idx(M) |-> FromInt(r * N + c + 1)]]

\* No lu is running.
AlgIdle ==
    /\ ty = "f64"
    /\ D = 0
    /\ A = <<>>
    /\ P = <<>>
    /\ L = <<>>
    /\ U = <<>>
    /\ d = 0
    /\ max_row = 0
    /\ swaps = 0
    /\ zeroPivot = FALSE

InitStore ==
    /\ AlgIdle
    /\ CollectIdle
    /\ rows \in 1 .. MaxM
    /\ cols \in 1 .. MaxN
    /\ data = Fixture(rows, cols)
    /\ args = NoCall
    /\ it = NoIter
    /\ pc = "store"
    /\ res = Unset

\* m.get((r, c))
Get ==
    /\ pc = "store"
    /\ \E r, c \in 0 .. MaxIdx :
        /\ args' = [op |-> "get", a |-> r, b |-> c]
        /\ res' = get(data, rows, cols, r, c)
    /\ UNCHANGED <<algVars, collectVars, pc, rows, cols, data, it>>

\* m.get(k)
GetOffset ==
    /\ pc = "store"
    /\ \E k \in 0 .. (rows * cols + 1) :
        /\ args' = [op |-> "get_offset", a |-> k, b |-> 0]
        /\ res' = get_offset(data, rows, cols, k)
    /\ UNCHANGED <<algVars, collectVars, pc, rows, cols, data, it>>

\* m[(r, c)]
Index ==
    /\ pc = "store"
    /\ \E r, c \in 0 .. MaxIdx :
        /\ args' = [op |-> "index", a |-> r, b |-> c]
        /\ res' = index(data, rows, cols, r, c)
        /\ pc' = IF res' = Panic THEN "panic" ELSE pc
    /\ UNCHANGED <<algVars, collectVars, rows, cols, data, it>>

\* m[k]
IndexOffset ==
    /\ pc = "store"
    /\ \E k \in 0 .. (rows * cols + 1) :
        /\ args' = [op |-> "index_offset", a |-> k, b |-> 0]
        /\ res' = index_offset(data, rows, cols, k)
        /\ pc' = IF res' = Panic THEN "panic" ELSE pc
    /\ UNCHANGED <<algVars, collectVars, rows, cols, data, it>>

\* m[(r, c)] = 0, the last call of the run; the borrow of a live iterator
\* has ended.
IndexMut ==
    /\ pc = "store"
    /\ \E r, c \in 0 .. MaxIdx :
        LET w == index_mut(data, rows, cols, r, c, Zero)
        IN  /\ args' = [op |-> "index_mut", a |-> r, b |-> c]
            /\ data' = IF w = Panic THEN data ELSE w.val
            /\ pc' = IF w = Panic THEN "panic" ELSE "wrote"
    /\ res' = Unset
    /\ it' = NoIter
    /\ UNCHANGED <<algVars, collectVars, rows, cols>>

\* m.swap_rows(r1, r2)
SwapRows ==
    /\ pc = "store"
    /\ \E r1, r2 \in 0 .. MaxIdx :
        /\ args' = [op |-> "swap_rows", a |-> r1, b |-> r2]
        /\ data' = from_slice(swap_rows(as_slice(data, rows, cols),
                                        rows, cols, r1, r2), rows, cols)
    /\ res' = Unset
    /\ it' = NoIter
    /\ UNCHANGED <<algVars, collectVars, pc, rows, cols>>

\* m.swap_columns(c1, c2)
SwapColumns ==
    /\ pc = "store"
    /\ \E c1, c2 \in 0 .. MaxIdx :
        /\ args' = [op |-> "swap_columns", a |-> c1, b |-> c2]
        /\ data' = from_slice(swap_columns(as_slice(data, rows, cols),
                                           rows, cols, c1, c2), rows, cols)
    /\ res' = Unset
    /\ it' = NoIter
    /\ UNCHANGED <<algVars, collectVars, pc, rows, cols>>

\* m.iter(): a fresh iterator over as_slice().
Iter ==
    /\ pc = "store"
    /\ args' = [op |-> "iter", a |-> 0, b |-> 0]
    /\ it' = [live |-> TRUE, out |-> <<>>]
    /\ res' = Unset
    /\ UNCHANGED <<algVars, collectVars, pc, rows, cols, data>>

\* it.next() on the live iterator, followed up to the first None.
IterNext ==
    /\ pc = "store"
    /\ it.live
    /\ Len(it.out) <= rows * cols
    /\ args' = [op |-> "next", a |-> 0, b |-> 0]
    /\ res' = slice_get(as_slice(data, rows, cols), Len(it.out))
    /\ it' = [it EXCEPT !.out = Append(it.out, res')]
    /\ UNCHANGED <<algVars, collectVars, pc, rows, cols, data>>

NextStore ==
    \/ Get
    \/ GetOffset
    \/ Index
    \/ IndexOffset
    \/ IndexMut
    \/ SwapRows
    \/ SwapColumns
    \/ Iter
    \/ IterNext

SpecStore == InitStore /\ [][NextStore]_vars

\* ------------------------------------------------- views and operators
\* &s[i..]: panics when i is beyond the end of the slice.
slice_from(s, i) ==
    LET n == Cardinality(DOMAIN s)
    IN  IF i <= n THEN Some([k \in Idx(n - i) |-> s[i + k]]) ELSE Panic

\* Stride<T, S> over the slice s: every S-th element from the first one.
stride(s, S) ==
    [k \in Idx((Cardinality(DOMAIN s) + S - 1) \div S) |-> s[k * S]]

\* Matrix::row that refuses a row index of M or more.
row_checked(dt, M, N, i) ==
    LET t == slice_from(as_slice(dt, M, N), i)
    IN  IF i >= M \/ t = Panic THEN Panic ELSE Some(stride(t.val, M))

\* Matrix::row read with a stride of N, as for row-major storage.
row_stride_N(dt, M, N, i) ==
    LET t == slice_from(as_slice(dt, M, N), i)
    IN  IF t = Panic THEN Panic ELSE Some(stride(t.val, N))

\* Matrix::row: Row::new(&self.as_slice()[i..]), a Stride<T, M>.
row(dt, M, N, i) ==
    LET t == slice_from(as_slice(dt, M, N), i)
    IN  IF t = Panic THEN Panic ELSE Some(stride(t.val, M))

\* Matrix::column: Column::new(&self.data[j]), a Stride<T, 1>.
column(dt, M, N, j) ==
    IF j < N THEN Some(stride(dt[j], 1)) ELSE Panic

\* (lo..hi).map(|i| self[i] * other[i]).sum(): folded from zero; an index
\* outside a view panics.
RECURSIVE SumProd(_, _, _, _)
SumProd(rw, cl, lo, hi) ==
    IF hi <= lo THEN Some(Zero)
    ELSE LET acc == SumProd(rw, cl, lo, hi - 1)
         IN  IF acc = Panic \/ (hi - 1) \notin DOMAIN rw \/ (hi - 1) \notin DOMAIN cl
             THEN Panic
             ELSE Some(Add(acc.val, Mul(rw[hi - 1], cl[hi - 1])))

\* Row::dot whose sum leaves out the first product.
dot_skip_first(rw, cl, N) == SumProd(rw, cl, 1, N)

\* Row::dot
dot(rw, cl, N) == SumProd(rw, cl, 0, N)

\* Range::count
RangeCount(lo, hi) == IF hi > lo THEN hi - lo ELSE 0

\* Row::dot_partial that takes range.end items instead of range.count().
dot_partial_take_end(rw, cl, N, lo, hi) ==
    LET last == IF lo + hi < N THEN lo + hi ELSE N
    IN  SumProd(rw, cl, lo, last)

\* Row::dot_partial: (0..N).skip(range.start).take(range.count())
dot_partial(rw, cl, N, lo, hi) ==
    LET n == RangeCount(lo, hi)
        last == IF lo + n < N THEN lo + n ELSE N
    IN  SumProd(rw, cl, lo, last)

\* Matrix * Matrix: matrix[(i, j)] = self.row(i).dot(rhs.column(j)) for a
\* self of M x N and a rhs of N x P1.
mul(dt, rh, M, N, P1) ==
    LET e == [k \in Idx(M * P1) |->
                LET rw == row(dt, M, N, k % M)
                    cl == column(rh, N, P1, k \div M)
                IN  IF rw = Panic \/ cl = Panic THEN Panic
                    ELSE dot(rw.val, cl.val, N)]
    IN  IF \E k \in DOMAIN e : e[k] = Panic THEN Panic
        ELSE Some(from_slice([k \in DOMAIN e |-> e[k].val], M, P1))

\* The methods impl_op_scalar is instantiated with.
ScalarMeths == {"add", "sub", "mul", "div", "rem"}

\* The left and right operand types impl_op_scalar implements each method
\* for.
ScalarImpls ==
    { [lhs |-> "Matrix", rhs |-> "T"], [lhs |-> "Matrix", rhs |-> "&T"],
      [lhs |-> "&Matrix", rhs |-> "T"], [lhs |-> "&Matrix", rhs |-> "&T"] }

\* self[i].$meth(other)
Meth(t, meth, a, b) ==
    CASE meth = "add" -> Add(a, b)
      [] meth = "sub" -> Sub(a, b)
      [] meth = "mul" -> Mul(a, b)
      [] meth = "div" -> Div(t, a, b)
      [] meth = "rem" -> Rem(a, b)

\* Matrix op T with the operands of the element operator exchanged.
op_scalar_flipped(t, dt, M, N, meth, other) ==
    from_slice([k \in Idx(M * N) |->
                    Meth(t, meth, other, as_slice(dt, M, N)[k])], M, N)

\* Matrix op T in its four forms: for i in 0..(M * N), the element at i
\* becomes self[i].$meth(other).
op_scalar(t, dt, M, N, meth, other) ==
    from_slice([k \in Idx(M * N) |->
                    Meth(t, meth, as_slice(dt, M, N)[k], other)], M, N)

\* matrix! literals: the element of row r and column c is
\* a * (r * N + c) + b.
Fill(M, N, a, b) ==
    [c \in Idx(N) |-> [r \in Idx(M) |-> FromInt(a * (r * N + c) + b)]]

OpsInputs(M, N) == { Fill(M, N, a, b) : a \in NonZeroVals, b \in 0 .. 1 }

InitOps ==
    /\ AlgIdle
    /\ CollectIdle
    /\ rows \in 1 .. MaxM
    /\ cols \in 1 .. MaxN
    /\ data \in OpsInputs(rows, cols)
    /\ args = NoCall
    /\ it = NoIter
    /\ pc = "ops"
    /\ res = Unset

\* self * rhs, in the four forms of impl_op_mul.
MatMulOp ==
    /\ pc = "ops"
    /\ \E P1 \in 1 .. MaxN, f \in ScalarImpls :
        \E rh \in OpsInputs(cols, P1) :
            /\ args' = [op |-> "matmul", a |-> 0, b |-> 0, rhs |-> rh, p |-> P1,
                        form |-> [lhs |-> f.lhs,
                                  rhs |-> IF f.rhs = "T" THEN "Matrix" ELSE "&Matrix"]]
            /\ res' = mul(data, rh, rows, cols, P1)
    /\ pc' = IF res' = Panic THEN "panic" ELSE "returned"
    /\ UNCHANGED <<algVars, collectVars, rows, cols, data, it>>

\* self.row(i).dot_partial(rhs.column(j), lo..hi)
DotPartial ==
    /\ pc = "ops"
    /\ \E P1 \in 1 .. MaxN, i \in Idx(rows), lo, hi \in 0 .. (cols + 1) :
        \E rh \in OpsInputs(cols, P1), j \in Idx(P1) :
            /\ args' = [op |-> "dot_partial", a |-> i, b |-> j, rhs |-> rh,
                        p |-> P1, lo |-> lo, hi |-> hi]
            /\ LET rw == row(data, rows, cols, i)
                   cl == column(rh, cols, P1, j)
               IN  res' = IF rw = Panic \/ cl = Panic THEN Panic
                          ELSE dot_partial(rw.val, cl.val, cols, lo, hi)
    /\ pc' = IF res' = Panic THEN "panic" ELSE "returned"
    /\ UNCHANGED <<algVars, collectVars, rows, cols, data, it>>

\* self.row(i)
RowOp ==
    /\ pc = "ops"
    /\ \E i \in 0 .. (rows * cols + 1) :
        /\ args' = [op |-> "row", a |-> i, b |-> 0]
        /\ res' = row(data, rows, cols, i)
    /\ pc' = IF res' = Panic THEN "panic" ELSE "returned"
    /\ UNCHANGED <<algVars, collectVars, rows, cols, data, it>>

\* self.column(j)
ColumnOp ==
    /\ pc = "ops"
    /\ \E j \in 0 .. (rows * cols + 1) :
        /\ args' = [op |-> "column", a |-> j, b |-> 0]
        /\ res' = column(data, rows, cols, j)
    /\ pc' = IF res' = Panic THEN "panic" ELSE "returned"
    /\ UNCHANGED <<algVars, collectVars, rows, cols, data, it>>

\* self op other for a scalar other, in the forms of impl_op_scalar.
ScalarOp ==
    /\ pc = "ops"
    /\ \E meth \in ScalarMeths, f \in ScalarImpls, other \in (-1) .. MaxVal :
        /\ args' = [op |-> meth, a |-> other, b |-> 0, form |-> f]
        /\ res' = Some(op_scalar(ty, data, rows, cols, meth, FromInt(other)))
    /\ pc' = "returned"
    /\ UNCHANGED <<algVars, collectVars, rows, cols, data, it>>

NextOps ==
    \/ MatMulOp
    \/ DotPartial
    \/ RowOp
    \/ ColumnOp
    \/ ScalarOp

SpecOps == InitOps /\ [][NextOps]_vars

\* ---------------------------------------------------------------- collect
\* A cell of Matrix<M, N, MaybeUninit<T>> that was never written.
Uninit == 0

\* Matrix::uninit()
uninit(M, N) == [k \in Idx(M * N) |-> Uninit]

\* Guard::drop that destroys the cells [..=init].
GuardDrop_one_more(g) == [i \in 1 .. (g.init + 1) |-> i - 1]

\* Guard::drop: drop_in_place on as_mut_slice()[..init], cell after cell;
\* the offsets destroyed, in order.
GuardDrop(g) == [i \in 1 .. g.init |-> i - 1]

\* The Some(item) arm that writes the cell and leaves init as it was.
GuardWrite_no_count(g, item) ==
    [g EXCEPT !.matrix[g.init] = item]

\* The Some(item) arm: write the item to the cell at init, then count it.
GuardWrite(g, item) ==
    [g EXCEPT !.matrix[g.init] = item, !.init = g.init + 1]

\* The sources: the k-th item yielded is k; after the last item next()
\* returns None or panics.
Sources ==
    { [items |-> [i \in 1 .. n |-> i], end |-> e] :
        n \in 0 .. MaxItems, e \in {"None", "panic"} }

InitCollect ==
    /\ AlgIdle
    /\ rows \in 1 .. MaxM
    /\ cols \in 1 .. MaxN
    /\ data = <<>>
    /\ args = NoCall
    /\ it = NoIter
    /\ src \in Sources
    /\ guard = [matrix |-> uninit(rows, cols), init |-> 0]
    /\ pulled = 0
    /\ drops = <<>>
    /\ pc = "fill"
    /\ res = Unset

\* An iteration of the loop in which iter.next() is Some(item).
CollectSome ==
    /\ pc = "fill"
    /\ pulled < rows * cols
    /\ pulled < Len(src.items)
    /\ pulled' = pulled + 1
    /\ guard' = GuardWrite(guard, src.items[pulled + 1])
    /\ UNCHANGED <<algVars, storeVars, src, drops, pc, res>>

\* An iteration in which iter.next() is None: return Err(guard.init), and
\* the guard is dropped.
CollectNone ==
    /\ pc = "fill"
    /\ pulled < rows * cols
    /\ pulled = Len(src.items)
    /\ src.end = "None"
    /\ pulled' = pulled + 1
    /\ res' = [tag |-> "Err", val |-> guard.init]
    /\ drops' = drops \o GuardDrop(guard)
    /\ pc' = "err"
    /\ UNCHANGED <<algVars, storeVars, src, guard>>

\* An iteration in which iter.next() panics: unwinding drops the guard.
CollectPanic ==
    /\ pc = "fill"
    /\ pulled < rows * cols
    /\ pulled = Len(src.items)
    /\ src.end = "panic"
    /\ pulled' = pulled + 1
    /\ drops' = drops \o GuardDrop(guard)
    /\ pc' = "unwind"
    /\ UNCHANGED <<algVars, storeVars, src, guard, res>>

\* The return after the loop without mem::forget: the guard is dropped.
CollectOk_no_forget ==
    /\ pc = "fill"
    /\ pulled >= rows * cols
    /\ res' = [tag |-> "Ok", val |-> from_slice(guard.matrix, rows, cols)]
    /\ drops' = drops \o GuardDrop(guard)
    /\ pc' = "ok"
    /\ UNCHANGED <<algVars, storeVars, src, guard, pulled>>

\* After M * N iterations: mem::forget(guard), Ok(matrix.assume_init()).
CollectOk ==
    /\ pc = "fill"
    /\ pulled >= rows * cols
    /\ res' = [tag |-> "Ok", val |-> from_slice(guard.matrix, rows, cols)]
    /\ pc' = "ok"
    /\ UNCHANGED <<algVars, storeVars, src, guard, pulled, drops>>

NextCollect ==
    \/ CollectSome
    \/ CollectNone
    \/ CollectPanic
    \/ CollectOk

SpecCollect == InitCollect /\ [][NextCollect]_vars

\* ------------------------------------------------ vocabulary of the claims
\* The states in which the locals P, L, U of lu exist.
InLu == pc \in {"find", "pivot", "elim", "done", "det", "inv"}

\* Elementwise equality of two matrices with T's own ==.
MatEq(X, Y) == DOMAIN X = DOMAIN Y /\ \A k \in DOMAIN X : Eq(X[k], Y[k])

Perms(n) == {f \in [Idx(n) -> Idx(n)] : \A i, j \in Idx(n) : i # j => f[i] # f[j]}

PermSign(f, n) ==
    IF Cardinality({p \in Idx(n) \X Idx(n) : p[1] < p[2] /\ f[p[1]] > f[p[2]]}) % 2 = 0
    THEN 1 ELSE -1

RECURSIVE PermProd(_, _, _, _)
PermProd(m, f, n, i) ==
    IF i = 0 THEN 1 ELSE PermProd(m, f, n, i - 1) * At(m, n, i - 1, f[i - 1])[1]

RECURSIVE SumSet(_, _, _)
SumSet(S, m, n) ==
    IF S = {} THEN 0
    ELSE LET f == CHOOSE g \in S : TRUE
         IN  PermSign(f, n) * PermProd(m, f, n, n) + SumSet(S \ {f}, m, n)

\* The determinant of an integer matrix by the Leibniz formula.
MathDet(m, n) == SumSet(Perms(n), m, n)

Singular == MathDet(A, D) = 0

\* (-1)^swaps.
SwapSign == IF swaps % 2 = 0 THEN One ELSE Neg(One)

UnitLower(m, n) ==
    \A r, c \in Idx(n) :
        /\ (r = c => At(m, n, r, c) = One)
        /\ (c > r => At(m, n, r, c) = Zero)

IsPermutation(m, n) ==
    /\ \A k \in DOMAIN m : m[k] \in {Zero, One}
    /\ \A r \in Idx(n) : Cardinality({c \in Idx(n) : At(m, n, r, c) = One}) = 1
    /\ \A c \in Idx(n) : Cardinality({r \in Idx(n) : At(m, n, r, c) = One}) = 1

\* ------------------------------------------------------------------ claims

\* C1: when lu has returned, P*A = L*U holds elementwise, for every input.
C1_PA_eq_LU ==
    pc = "done" => MatEq(MatMul(P, A, D), MatMul(L, U, D))

\* C2: det(A) is the determinant of A, that is the product of the diagonals
\* of L and U times (-1)^(row swaps performed), whatever the parity of D.
C2_DetIsDeterminant ==
    pc = "det" =>
        /\ Eq(res, FromInt(MathDet(A, D)))
        /\ Eq(res, Mul(SwapSign, DetTo(L, U, D, D)))

\* C3: det of a singular matrix is zero.
C3_SingularDetZero ==
    (pc = "det" /\ Singular) => Eq(res, Zero)

\* C4: inv of an invertible matrix is present and is a right inverse:
\* A * inv(A) = identity.
C4_InvIsInverse ==
    (pc = "inv" /\ ~Singular) =>
        /\ res.tag = "Some"
        /\ MatEq(MatMul(A, res.val, D), eye(D))

C4_Witness ==
    /\ pc = "inv" /\ ~Singular /\ D = 3 /\ swaps > 0
    /\ res.tag = "Some"
    /\ \E k \in DOMAIN res.val : res.val[k][2] > 1

\* C5: inv of a singular matrix returns None and the run never panics, for
\* every element type.
C5_SingularInvNone ==
    Singular => (pc # "panic" /\ (pc = "inv" => res = None))

\* C6: throughout lu and on return L is unit lower triangular, and no step
\* writes an entry of L on or above the diagonal.
C6_LUnitLower ==
    /\ [](InLu => UnitLower(L, D))
    /\ [][(InLu /\ InLu') =>
            \A k \in DOMAIN L : ColOf(D, k) >= RowOf(D, k) => L'[k] = L[k]]_vars

C6_Witness ==
    /\ pc = "done" /\ D = 3 /\ swaps = 2
    /\ At(L, D, 1, 0) # Zero /\ At(L, D, 2, 1) # Zero

\* C7: throughout lu and on return P is a permutation matrix.
C7_PPermutation ==
    InLu => IsPermutation(P, D)

C7_Witness ==
    pc = "done" /\ D = 3 /\ swaps = 2 /\ P # eye(D)

\* C8: while every elimination step run so far had a nonzero pivot, every
\* column c of U that a step has eliminated is zero below the diagonal (so
\* the U that lu returns is upper triangular); and no step modifies a row of
\* U above the current diagonal index.
C8_UUpper ==
    /\ [](InLu /\ (\A c1 \in Idx(d) : At(U, D, c1, c1) # Zero) =>
            \A c \in Idx(d) : \A r \in (c + 1) .. (D - 1) : Eq(At(U, D, r, c), Zero))
    /\ [][(InLu /\ InLu') =>
            \A k \in DOMAIN U : RowOf(D, k) < d => U'[k] = U[k]]_vars

C8_Witness ==
    /\ pc = "done" /\ D = 3 /\ ~zeroPivot /\ swaps > 0
    /\ At(L, D, 2, 1) # Zero
    /\ At(U, D, 0, 2) # Zero /\ At(U, D, 1, 2) # Zero

\* C9: the row found at step d is the lowest row of d..D-1 whose |U[row,d]|
\* is the largest.
C9_MaxRow ==
    pc = "pivot" =>
        /\ d <= max_row /\ max_row < D
        /\ \A r \in d .. (D - 1) : Le(Abs(At(U, D, r, d)), Abs(At(U, D, max_row, d)))
        /\ \A r \in d .. (max_row - 1) : Lt(Abs(At(U, D, r, d)), Abs(At(U, D, max_row, d)))

\* C10: invert_upper_triangular returns None exactly when some diagonal
\* entry of its argument is zero.
C10_UpperNoneIffZeroDiag ==
    pc = "invU" => (res = None <=> \E i \in Idx(D) : At(A, D, i, i) = Zero)

C10_Witness ==
    /\ pc = "invU" /\ D = 3 /\ res = None
    /\ At(A, D, 2, 2) # Zero /\ At(A, D, 1, 1) # Zero /\ At(A, D, 0, 0) = Zero

\* Every entry of m below the diagonal is zero.
UpperTriangular(m, n) ==
    \A r, c \in Idx(n) : r > c => At(m, n, r, c) = Zero

\* C11: for an upper triangular U with a nonzero diagonal,
\* invert_upper_triangular returns Some(R) with U0 * R = identity, U0 being
\* U as it was before the call.
C11_UpperInverse ==
    (/\ pc = "invU"
     /\ UpperTriangular(A, D)
     /\ \A i \in Idx(D) : At(A, D, i, i) # Zero) =>
        /\ res.tag = "Some"
        /\ MatEq(MatMul(A, res.val, D), eye(D))

C11_Witness ==
    /\ pc = "invU" /\ D = 3 /\ UpperTriangular(A, D)
    /\ At(A, D, 0, 0) = FromInt(2) /\ At(A, D, 1, 1) = FromInt(-1)
    /\ At(A, D, 2, 2) = FromInt(2)
    /\ \A r, c \in Idx(D) : r < c => At(A, D, r, c) # Zero
    /\ U # A
    /\ res.tag = "Some"
    /\ MatEq(MatMul(A, res.val, D), eye(D))

\* C12: invert_lower_triangular returns None exactly when some diagonal
\* entry of its argument is not one; with a diagonal of ones it returns
\* Some.
C12_LowerNoneIffNonUnitDiag ==
    pc = "invL" =>
        /\ res = None <=> \E i \in Idx(D) : At(A, D, i, i) # One
        /\ (\A i \in Idx(D) : At(A, D, i, i) = One) => res.tag = "Some"

C12_Witness ==
    /\ pc = "invL" /\ D = 3 /\ res = None
    /\ At(A, D, 0, 0) = One /\ At(A, D, 1, 1) = One /\ At(A, D, 2, 2) # One

\* C13: for a unit lower triangular L, invert_lower_triangular returns
\* Some(R) with L0 * R = identity, L0 being L as it was before the call.
C13_LowerInverse ==
    (pc = "invL" /\ UnitLower(A, D)) =>
        /\ res.tag = "Some"
        /\ MatEq(MatMul(A, res.val, D), eye(D))

C13_Witness ==
    /\ pc = "invL" /\ D = 3 /\ UnitLower(A, D)
    /\ \A r, c \in Idx(D) : r > c => At(A, D, r, c) \notin {Zero, One}
    /\ L # A
    /\ res.tag = "Some"
    /\ MatEq(MatMul(A, res.val, D), eye(D))

\* The element of row r and column c: column c is the array data[c].
Elem(r, c) == data[c][r]

\* C14: get((row, col)) returns None whenever row >= M or col >= N, and
\* the element of that row and column otherwise.
C14_GetPairChecked ==
    args.op = "get" =>
        res = IF args.a < rows /\ args.b < cols
              THEN Some(Elem(args.a, args.b))
              ELSE None

\* C15: m[(row, col)], read or written, panics whenever row >= M or
\* col >= N.
C15_IndexPairPanics ==
    (/\ args.op \in {"index", "index_mut"}
     /\ (args.a >= rows \/ args.b >= cols)) => pc = "panic"

\* C16: the storage is column-major. m[(r, c)] and m[c * M + r] are the
\* element of row r and column c; get(k) is that element for k < M * N and
\* None from M * N on; as_slice has M * N elements, and a fresh iterator
\* yields them from offset 0 in increasing offset order, then None.
C16_ColumnMajor ==
    /\ \A r \in Idx(rows), c \in Idx(cols) :
        /\ index(data, rows, cols, r, c) = Some(Elem(r, c))
        /\ index_offset(data, rows, cols, c * rows + r) = Some(Elem(r, c))
        /\ get_offset(data, rows, cols, c * rows + r) = Some(Elem(r, c))
    /\ DOMAIN as_slice(data, rows, cols) = Idx(rows * cols)
    /\ args.op = "get_offset" =>
        res = IF args.a < rows * cols
              THEN Some(Elem(args.a % rows, args.a \div rows))
              ELSE None
    /\ args.op = "iter" => it = [live |-> TRUE, out |-> <<>>]
    /\ it.live =>
        \A i \in 1 .. Len(it.out) :
            it.out[i] = IF i - 1 < rows * cols
                        THEN Some(Elem((i - 1) % rows, (i - 1) \div rows))
                        ELSE None

C16_Witness ==
    /\ rows = 2 /\ cols = 3 /\ data = Fixture(2, 3)
    /\ args.op = "next" /\ res = None
    /\ it.live /\ Len(it.out) = 7
    /\ it.out[2] = Some(FromInt(4)) /\ it.out[6] = Some(FromInt(6))

\* C17: swap_rows(r1, r2) with both rows in range exchanges the two rows
\* column by column and leaves every other row as it was; swap_columns
\* likewise for columns.
C17_SwapExchanges ==
    [][/\ (args'.op = "swap_rows" /\ args'.a < rows /\ args'.b < rows) =>
            \A r \in Idx(rows), c \in Idx(cols) :
                data'[c][r] = IF r = args'.a THEN Elem(args'.b, c)
                              ELSE IF r = args'.b THEN Elem(args'.a, c)
                              ELSE Elem(r, c)
       /\ (args'.op = "swap_columns" /\ args'.a < cols /\ args'.b < cols) =>
            \A r \in Idx(rows), c \in Idx(cols) :
                data'[c][r] = IF c = args'.a THEN Elem(r, args'.b)
                              ELSE IF c = args'.b THEN Elem(r, args'.a)
                              ELSE Elem(r, c)]_vars

\* [[1,2,3],[4,5,6],[7,8,9]] after swap_rows(0, 2) and swap_columns(0, 2).
C17_Witness ==
    /\ rows = 3 /\ cols = 3
    /\ args = [op |-> "swap_columns", a |-> 0, b |-> 2]
    /\ \A r \in Idx(3), c \in Idx(3) : Elem(r, c) = FromInt(9 - (r * 3 + c))

\* C18: swap_rows with a row out of range and swap_columns with a column
\* out of range leave the whole matrix unchanged and do not panic, also
\* when only one of the two indices is out of range.
C18_SwapOutOfRangeNoOp ==
    [][(\/ (args'.op = "swap_rows" /\ (args'.a >= rows \/ args'.b >= rows))
        \/ (args'.op = "swap_columns" /\ (args'.a >= cols \/ args'.b >= cols)))
            => (data' = data /\ pc' = "store")]_vars

\* swap_rows(0, 2) on a 2 x 3 matrix: only r2 is out of range, and the
\* offsets of (2, c) are inside the storage for c < 2.
C18_Witness ==
    /\ rows = 2 /\ cols = 3 /\ pc = "store"
    /\ args = [op |-> "swap_rows", a |-> 0, b |-> 2]
    /\ data = Fixture(2, 3)

\* The offsets of the cells that were written.
Written == {k \in DOMAIN guard.matrix : guard.matrix[k] # Uninit}

\* C19: a source that yields k < M * N items and then ends makes collect
\* return Err(k), and never a matrix.
C19_ErrCount ==
    (/\ pc # "fill"
     /\ src.end = "None"
     /\ Len(src.items) < rows * cols) =>
        res = [tag |-> "Err", val |-> Len(src.items)]

C19_Witness ==
    /\ rows = 3 /\ cols = 3 /\ pc = "err"
    /\ Len(src.items) = 5
    /\ res = [tag |-> "Err", val |-> 5]

\* C20: when collect ends early (the source ended, or its next() panicked)
\* the cells written are destroyed once each in increasing offset order,
\* and no other cell is; before that nothing is destroyed. At every moment
\* guard.init is the number of cells written, these are the cells at
\* offsets below init, and init is at most M * N.
C20_GuardDrop ==
    (pc \in {"fill", "err", "unwind", "ok"}) =>
        /\ guard.init = Cardinality(Written)
        /\ Written = Idx(guard.init)
        /\ guard.init <= rows * cols
        /\ pc \in {"err", "unwind"} =>
            /\ Len(drops) = Cardinality(Written)
            /\ \A i \in 1 .. Len(drops) : drops[i] = i - 1 /\ drops[i] \in Written
        /\ pc = "fill" => drops = <<>>

C20_Witness ==
    /\ rows = 3 /\ cols = 3 /\ pc = "unwind"
    /\ src.end = "panic" /\ Len(src.items) = 5
    /\ drops = <<0, 1, 2, 3, 4>>
    /\ guard.matrix[4] = 5 /\ guard.matrix[5] = Uninit

\* C21: a source of at least M * N items makes collect return Ok with the
\* k-th item yielded in the cell at linear offset k; collect has then called
\* next() M * N times and destroyed no cell.
C21_OkFill ==
    (pc # "fill" /\ Len(src.items) >= rows * cols) =>
        /\ res.tag = "Ok"
        /\ \A k \in Idx(rows * cols) :
            as_slice(res.val, rows, cols)[k] = src.items[k + 1]
        /\ \A r \in Idx(rows), c \in Idx(cols) :
            res.val[c][r] = src.items[c * rows + r + 1]
        /\ pulled = rows * cols
        /\ drops = <<>>

C21_Witness ==
    /\ rows = 2 /\ cols = 3 /\ pc = "ok"
    /\ Len(src.items) = 7
    /\ res.tag = "Ok" /\ res.val[1][0] = 3 /\ res.val[2][1] = 6
    /\ pulled = 6

\* The sum of X[i, k] * Y[k, j] for k in lo..hi-1, X and Y given as their
\* columns.
RECURSIVE InnerSum(_, _, _, _, _, _)
InnerSum(X, Y, i, j, lo, hi) ==
    IF hi <= lo THEN Zero
    ELSE Add(Mul(X[lo][i], Y[j][lo]), InnerSum(X, Y, i, j, lo + 1, hi))

\* C22: the product of an M x N matrix and an N x P matrix is M x P and its
\* element (i, j) is the sum of A[i, k] * B[k, j] over k in 0..N-1, in each
\* of the four owned and borrowed forms.
C22_MatMul ==
    args.op = "matmul" =>
        /\ res.tag = "Some"
        /\ DOMAIN res.val = Idx(args.p)
        /\ \A j \in Idx(args.p) :
            /\ DOMAIN res.val[j] = Idx(rows)
            /\ \A i \in Idx(rows) :
                res.val[j][i] = InnerSum(data, args.rhs, i, j, 0, cols)

\* [[1,2,3],[4,5,6]] * [[1,2],[3,4],[5,6]] = [[22,28],[49,64]]
C22_Witness ==
    /\ args.op = "matmul" /\ rows = 2 /\ cols = 3 /\ args.p = 2
    /\ args.form = [lhs |-> "&Matrix", rhs |-> "Matrix"]
    /\ data = Fixture(2, 3) /\ args.rhs = Fixture(3, 2)
    /\ res.val[0][0] = FromInt(22) /\ res.val[1][0] = FromInt(28)
    /\ res.val[0][1] = FromInt(49) /\ res.val[1][1] = FromInt(64)

\* C23: dot_partial of row i and column j over lo..hi, 0 <= lo <= hi <= N,
\* is the sum of row[k] * column[k] for k in lo..hi-1: dot(row, column)
\* over 0..N and zero over an empty range.
C23_DotPartial ==
    (args.op = "dot_partial" /\ args.lo <= args.hi /\ args.hi <= cols) =>
        /\ res = Some(InnerSum(data, args.rhs, args.a, args.b, args.lo, args.hi))
        /\ (args.lo = 0 /\ args.hi = cols) =>
            res = dot(row(data, rows, cols, args.a).val,
                      column(args.rhs, cols, args.p, args.b).val, cols)
        /\ args.lo = args.hi => res = Some(Zero)

\* row(1).dot_partial(column(2), 1..3) on [[1,2,3],[4,5,6],[7,8,9]]:
\* 5 * 6 + 6 * 9.
C23_Witness ==
    /\ args.op = "dot_partial" /\ rows = 3 /\ cols = 3 /\ args.p = 3
    /\ data = Fixture(3, 3) /\ args.rhs = Fixture(3, 3)
    /\ args.a = 1 /\ args.b = 2 /\ args.lo = 1 /\ args.hi = 3
    /\ res = Some(FromInt(84))

\* C24: row(i) for i < M is a view of N elements, the k-th being A[(i, k)]
\* at storage offset i + k * M; column(j) for j < N is a view of M
\* elements, the k-th being A[(k, j)] at storage offset j * M + k.
C24_Views ==
    /\ (args.op = "row" /\ args.a < rows) =>
        /\ res.tag = "Some"
        /\ DOMAIN res.val = Idx(cols)
        /\ \A k \in Idx(cols) :
            /\ res.val[k] = Elem(args.a, k)
            /\ res.val[k] = as_slice(data, rows, cols)[args.a + k * rows]
    /\ (args.op = "column" /\ args.a < cols) =>
        /\ res.tag = "Some"
        /\ DOMAIN res.val = Idx(rows)
        /\ \A k \in Idx(rows) :
            /\ res.val[k] = Elem(k, args.a)
            /\ res.val[k] = as_slice(data, rows, cols)[args.a * rows + k]

\* row(1) of [[1,2,3],[4,5,6]] is 4, 5, 6.
C24_Witness ==
    /\ args.op = "row" /\ args.a = 1 /\ rows = 2 /\ cols = 3
    /\ data = Fixture(2, 3)
    /\ res.tag = "Some"
    /\ res.val = [k \in Idx(3) |-> FromInt(4 + k)]

\* The operand order of an implemented form.
OperandOrder(f) ==
    IF f.lhs \in {"Matrix", "&Matrix"} THEN "matrix op scalar"
    ELSE "scalar op matrix"

\* A scalar operator returned the matrix of self[i] op other, and self is
\* as it was; for add, subtracting the scalar again gives self.
ScalarElementwise ==
    args.op \in ScalarMeths =>
        /\ res.tag = "Some"
        /\ DOMAIN res.val = Idx(cols)
        /\ \A c \in Idx(cols) :
            /\ DOMAIN res.val[c] = Idx(rows)
            /\ \A r \in Idx(rows) :
                /\ res.val[c][r] = Meth(ty, args.op, Elem(r, c), FromInt(args.a))
                /\ as_slice(res.val, rows, cols)[c * rows + r]
                     = Meth(ty, args.op, as_slice(data, rows, cols)[c * rows + r],
                            FromInt(args.a))
        /\ args.op = "add" =>
            op_scalar(ty, res.val, rows, cols, "sub", FromInt(args.a)) = data

\* C25 as stated: the scalar operators are elementwise and exist in both
\* operand orders, matrix op scalar and scalar op matrix.
C25_ScalarBothOrders ==
    /\ ScalarElementwise
    /\ \A o \in {"matrix op scalar", "scalar op matrix"} :
        \E f \in ScalarImpls : OperandOrder(f) = o

\* C25 amended: the scalar operators + - * / % take the matrix, owned or
\* borrowed, on the left and the scalar, owned or borrowed, on the right;
\* each returns a new matrix whose element at every offset i is
\* A[i] op s, and (A + s) - s = A.
C25_ScalarElementwise ==
    /\ ScalarElementwise
    /\ args.op \in ScalarMeths =>
        /\ args.form.lhs \in {"Matrix", "&Matrix"}
        /\ args.form.rhs \in {"T", "&T"}
    /\ \A f \in ScalarImpls : OperandOrder(f) = "matrix op scalar"

\* [[1,2,3],[4,5,6]] - 2
C25_Witness ==
    /\ args.op = "sub" /\ args.a = 2 /\ rows = 2 /\ cols = 3
    /\ args.form = [lhs |-> "&Matrix", rhs |-> "T"]
    /\ data = Fixture(2, 3)
    /\ res.val[0][0] = FromInt(-1) /\ res.val[2][1] = FromInt(4)

\* C30: column(j) panics for every j >= N, while row(i) panics only for
\* i > M * N; for M <= i <= M * N row(i) returns a view that starts at
\* storage offset i, whose elements belong to row i mod M.
C30_RowOutOfRange ==
    /\ args.op = "column" => (res = Panic <=> args.a >= cols)
    /\ args.op = "row" =>
        /\ res = Panic <=> args.a > rows * cols
        /\ (rows <= args.a /\ args.a <= rows * cols) =>
            /\ res.tag = "Some"
            /\ pc = "returned"
            /\ \A k \in DOMAIN res.val :
                /\ res.val[k] = as_slice(data, rows, cols)[args.a + k * rows]
                /\ res.val[k] = Elem(args.a % rows, args.a \div rows + k)

\* row(3) of [[1,2,3],[4,5,6]]: the elements 5, 6 of row 1.
C30_Witness ==
    /\ args.op = "row" /\ args.a = 3 /\ rows = 2 /\ cols = 3
    /\ data = Fixture(2, 3)
    /\ res = Some([k \in Idx(2) |-> FromInt(5 + k)])

\* The row index that partial_pivot at diagonal dg with found row mr reads
\* row r from.
PivotRow(r, dg, mr) == IF r = dg THEN mr ELSE IF r = mr THEN dg ELSE r

\* C26: the partial-pivot step at diagonal d with found row max_row exchanges
\* rows d and max_row in full in P and in U, and in L only in columns
\* 0..d-1; every entry of L in a column >= d and every other row of P, U and
\* L is unchanged; when max_row = d the step changes nothing.
C26_PartialPivotFrame ==
    [][(pc = "pivot" /\ pc' = "elim") =>
        /\ \A r, c \in Idx(D) :
            /\ At(P', D, r, c) = At(P, D, PivotRow(r, d, max_row), c)
            /\ At(U', D, r, c) = At(U, D, PivotRow(r, d, max_row), c)
            /\ At(L', D, r, c) =
                   IF c < d THEN At(L, D, PivotRow(r, d, max_row), c)
                   ELSE At(L, D, r, c)
        /\ max_row = d => (P' = P /\ U' = U /\ L' = L)]_vars

C26_Witness ==
    /\ pc = "elim" /\ D = 3 /\ d = 1 /\ max_row = 2 /\ swaps = 2
    /\ At(L, D, 1, 0) # At(L, D, 2, 0)
    /\ At(L, D, 1, 1) = One /\ At(L, D, 2, 1) = Zero

\* A pivot of step i has been met once gauss_eliminate of step i is next or
\* has run.
PivotMet(i) == i < d \/ (i = d /\ pc = "elim")

\* C27: inside inv, invert_lower_triangular never returns None on the L of
\* lu; inv returns None exactly when some diagonal entry of the U of lu is
\* exactly zero; and a zero pivot met at step d stays at U[d,d] until lu
\* returns.
C27_InvNoneIffZeroPivot ==
    /\ [](pc \in {"done", "det", "inv"} =>
            invert_lower_triangular(L, D).tag = "Some")
    /\ [](pc = "inv" =>
            (res = None <=> \E i \in Idx(D) : At(U, D, i, i) = Zero))
    /\ [][\A i \in Idx(D) :
            (pc \in {"find", "pivot", "elim"} /\ PivotMet(i)
                /\ At(U, D, i, i) = Zero)
            => At(U', D, i, i) = Zero]_vars

C27_Witness ==
    /\ pc = "inv" /\ res = None /\ D = 3
    /\ At(U, D, 0, 0) # Zero /\ At(U, D, 1, 1) = Zero

\* C28: on every input on which no pivot U[d,d] is zero, every multiplier
\* stored by lu, and so every entry of L during lu and on return, has
\* magnitude at most one.
C28_MultipliersAtMostOne ==
    (InLu /\ ~zeroPivot) => \A k \in DOMAIN L : Le(Abs(L[k]), One)

C28_Witness ==
    /\ pc = "done" /\ ~zeroPivot /\ D = 3 /\ swaps > 0
    /\ \E k \in DOMAIN L : Lt(Zero, Abs(L[k])) /\ Lt(Abs(L[k]), One)

\* C29: after any sequence of swap_rows and swap_columns calls, with indices
\* in range or not, the matrix is the initial matrix with its rows permuted
\* and its columns permuted, and the same swap call made twice in succession
\* restores the matrix.
C29_SwapsPermute ==
    pc = "store" =>
        /\ \E sigma \in Perms(rows) : \E tau \in Perms(cols) :
             \A r \in Idx(rows) : \A c \in Idx(cols) :
                Elem(r, c) = Fixture(rows, cols)[tau[c]][sigma[r]]
        /\ \A i, j \in 0..MaxIdx :
             LET s == as_slice(data, rows, cols)
             IN  /\ swap_rows(swap_rows(s, rows, cols, i, j), rows, cols, i, j) = s
                 /\ swap_columns(swap_columns(s, rows, cols, i, j), rows, cols, i, j) = s

C29_Witness ==
    /\ pc = "store" /\ rows = 3 /\ cols = 2
    /\ args.op = "swap_rows" /\ args.b > 2
    /\ Elem(0, 0) = Fixture(rows, cols)[1][2]

====
